---- MODULE Spec2Model ----
(***************************************************************************)
(* Model of orafce's UTL_FILE layer (src/file.c): the handle table         *)
(* (slots, slotid), the stdio streams the slots own, the files behind the  *)
(* streams, and the SQL-callable handlers that act on them.                *)
(*                                                                         *)
(* Scaling.  The table has MAX_SLOTS = 50 slots and int32 ids in the       *)
(* source; the model keeps the code's algorithms and scales the table to   *)
(* MAX_SLOTS slots and the id type to IdBits-bit two's complement, so that *)
(* a full table and a wrapped counter are reachable.  PostgreSQL is built  *)
(* with -fwrapv, so ++slotid at INT_MAX wraps to INT_MIN.                  *)
(*                                                                         *)
(* Texts are sequences of one-character strings; "LF" and "CR" stand for   *)
(* the characters \n and \r.                                               *)
(***************************************************************************)
EXTENDS Integers, Sequences, FiniteSets, TLC

(* ------------------------------ bounds -------------------------------- *)

MAX_SLOTS == 2

IdBits == 2

MaxData == 3

(* ------------------------- program constants -------------------------- *)

INVALID_SLOTID == 0

MAX_LINESIZE == 32767

INVALID_OPERATION == "UTL_FILE_INVALID_OPERATION"
WRITE_ERROR == "UTL_FILE_WRITE_ERROR"
READ_ERROR == "UTL_FILE_READ_ERROR"
INVALID_FILEHANDLE == "UTL_FILE_INVALID_FILEHANDLE"
INVALID_MAXLINESIZE == "UTL_FILE_INVALID_MAXLINESIZE"
INVALID_MODE == "UTL_FILE_INVALID_MODE"
INVALID_PATH == "UTL_FILE_INVALID_PATH"
VALUE_ERROR == "UTL_FILE_VALUE_ERROR"

\* ereport(ERROR, errcode(...)) conditions that are not CUSTOM_EXCEPTIONs
NULL_VALUE_NOT_ALLOWED == "ERRCODE_NULL_VALUE_NOT_ALLOWED"
INVALID_PARAMETER_VALUE == "ERRCODE_INVALID_PARAMETER_VALUE"
PROGRAM_LIMIT_EXCEEDED == "ERRCODE_PROGRAM_LIMIT_EXCEEDED"
NO_DATA_FOUND == "ERRCODE_NO_DATA_FOUND"
\* a NULL FILE* handed to stdio: the backend dies
SIGSEGV == "SIGSEGV"
OK == "OK"

(* ------------------------------ integers ------------------------------ *)

RECURSIVE Pow2(_)
Pow2(n) == IF n = 0 THEN 1 ELSE 2 * Pow2(n - 1)

INT_MAX == Pow2(IdBits - 1) - 1
INT_MIN == -Pow2(IdBits - 1)
Int32 == INT_MIN..INT_MAX

\* ++x on the id type (two's complement wrap)
PreInc(x) == IF x = INT_MAX THEN INT_MIN ELSE x + 1

(* --------------------------- call arguments --------------------------- *)

\* a Datum of the call: PG_ARGISNULL(n) and PG_GETARG_xxx(n)
Arg(v) == [isnull |-> FALSE, v |-> v]
NullInt == [isnull |-> TRUE, v |-> 0]
NullText == [isnull |-> TRUE, v |-> <<>>]

LF == "LF"
CR == "CR"

(* ------------------------------- state -------------------------------- *)

NULL == 0
NumAddr == MAX_SLOTS + 1
Addr == 1..NumAddr

VARIABLES
    slots,      \* FileSlot slots[MAX_SLOTS]: [file, max_linesize, id]
    slotid,     \* next slot id
    streams,    \* the FILE object at each address
    fs,         \* the files: path -> [exists, data]
    ret,        \* the outcome of the last call
    rt          \* the round-trip scenario's script position and results

tvars == <<slots, slotid>>
vars == <<slots, slotid, streams, fs, ret, rt>>

FreeSlot == [file |-> NULL, max_linesize |-> 0, id |-> INVALID_SLOTID]

ClosedStream == [open |-> FALSE, path |-> <<>>, mode |-> "r", pos |-> 0, wbuf |-> <<>>]

NoFile == [exists |-> FALSE, data |-> <<>>]

\* the outcome of a call of the handler op with the handle d and the text
\* buf: the handle it was given, the error raised (OK when it returns) and
\* the value returned
Ret(op, d, buf, err, rint, rtext) ==
    [op |-> op, d |-> d, err |-> err, rint |-> rint, rtext |-> rtext]

NoCall == Ret("none", NullInt, NullText, OK, 0, <<>>)

(* ------------------------------- paths -------------------------------- *)

\* the rows of the table utl_file.utl_file_dir
utl_file_dir == {<<"/", "d">>}

\* the directory check_secure_locality lets through without a lookup
\* (stands for "/tmp/regress_orafce")
regress_orafce == <<"/", "t">>

Last(s) == s[Len(s)]
Front(s) == SubSeq(s, 1, Len(s) - 1)

\* canonicalize_path: trim_trailing_separator
RECURSIVE TrimTrailingSep(_)
TrimTrailingSep(p) ==
    IF Len(p) > 1 /\ Last(p) = "/" THEN TrimTrailingSep(Front(p)) ELSE p

\* canonicalize_path: remove duplicate adjacent separators
RECURSIVE DedupSep(_)
DedupSep(p) ==
    IF Len(p) < 2 THEN p
    ELSE IF p[1] = "/" /\ p[2] = "/" THEN DedupSep(Tail(p))
    ELSE <<p[1]>> \o DedupSep(Tail(p))

RECURSIVE StripName(_)
StripName(p) == IF Len(p) > 1 /\ Last(p) # "/" THEN StripName(Front(p)) ELSE p

\* trim_directory: cut the last component, keeping a leading separator
TrimDirectory(p) ==
    IF p = <<>> THEN p
    ELSE LET q == StripName(TrimTrailingSep(p))
         IN  IF Len(q) = 1 THEN (IF q[1] = "/" THEN q ELSE <<>>)
             ELSE TrimTrailingSep(q)

EndsWith(p, suffix) ==
    Len(p) > Len(suffix) /\ SubSeq(p, Len(p) - Len(suffix) + 1, Len(p)) = suffix

\* canonicalize_path: the loop over trailing "." and ".."
RECURSIVE TrimDots(_, _)
TrimDots(p, pending_strips) ==
    IF EndsWith(p, <<"/", ".">>) THEN TrimDots(TrimDirectory(p), pending_strips)
    ELSE IF EndsWith(p, <<"/", ".", ".">>) THEN TrimDots(TrimDirectory(p), pending_strips + 1)
    ELSE IF pending_strips > 0 /\ p # <<>> /\ p # <<"/">>
         THEN LET q == TrimDirectory(p)
              IN  TrimDots(IF q = <<>> THEN <<".">> ELSE q, pending_strips - 1)
    ELSE p

canonicalize_path(p) == TrimDots(DedupSep(TrimTrailingSep(p)), 0)

\* TRUE when check_secure_locality returns, FALSE when it raises INVALID_PATH
check_secure_locality(path) ==
    \/ path = regress_orafce
    \/ \E dir \in utl_file_dir :
          SubSeq(path, 1, IF Len(path) < Len(dir) + 1 THEN Len(path) ELSE Len(dir) + 1)
              = dir \o <<"/">>

\* get_safe_path: the error it raises (OK if none) and the full name
get_safe_path(location, filename) ==
    IF Len(location) = 0 \/ Len(filename) = 0
    THEN [err |-> INVALID_PARAMETER_VALUE, fullname |-> <<>>]
    ELSE LET fullname == canonicalize_path(location \o <<"/">> \o filename)
         IN  IF check_secure_locality(fullname)
             THEN [err |-> OK, fullname |-> fullname]
             ELSE [err |-> INVALID_PATH, fullname |-> fullname]

\* IO_EXCEPTION: the condition raised for an errno
IO_EXCEPTION(errno) ==
    IF errno \in {"EACCES", "ENAMETOOLONG", "ENOENT", "ENOTDIR"}
    THEN INVALID_PATH
    ELSE INVALID_OPERATION

(* ------------------------------- stdio -------------------------------- *)
(* A stream buffers its output in wbuf until fflush or fclose.  A "w"     *)
(* stream writes at its own offset pos, an "a" stream at the end of the    *)
(* file, an "r" stream reads at pos.  After fclose, successful or not, the *)
(* FILE object is gone: a later use of its address is a use of a dangling  *)
(* pointer, unless fopen has handed the address out again.                 *)

Max(a, b) == IF a > b THEN a ELSE b

WriteAt(data, off, b) ==
    [i \in 1..Max(Len(data), off + Len(b)) |->
        IF i > off /\ i <= off + Len(b) THEN b[i - off]
        ELSE IF i <= Len(data) THEN data[i] ELSE "NUL"]

\* the files after the stream st has written out its buffer
FlushData(st, fsv) ==
    IF st.path \notin DOMAIN fsv \/ ~fsv[st.path].exists \/ st.wbuf = <<>> THEN fsv
    ELSE [fsv EXCEPT ![st.path].data =
             IF st.mode = "a" THEN @ \o st.wbuf ELSE WriteAt(@, st.pos, st.wbuf)]

\* fclose(f); fail is the errno it reports ("0": it returns 0)
libc_fclose(sv, fsv, f, fail) ==
    IF sv[f].open
    THEN [streams |-> [sv EXCEPT ![f] = ClosedStream],
          fs |-> IF fail = "0" THEN FlushData(sv[f], fsv) ELSE fsv,
          errno |-> fail]
    ELSE [streams |-> sv, fs |-> fsv, errno |-> fail]

\* the components of a path from its i-th character on; cur is the
\* component being read
RECURSIVE Components(_, _, _)
Components(p, i, cur) ==
    IF i > Len(p) THEN <<cur>>
    ELSE IF p[i] = "/" THEN <<cur>> \o Components(p, i + 1, <<>>)
    ELSE Components(p, i + 1, Append(cur, p[i]))

\* the directories walked by the system for a list of components: "." and
\* empty components stay, ".." goes up (the directories named exist)
RECURSIVE Walk(_, _)
Walk(comps, stack) ==
    IF comps = <<>> THEN stack
    ELSE IF Head(comps) \in {<<>>, <<".">>} THEN Walk(Tail(comps), stack)
    ELSE IF Head(comps) = <<".", ".">>
    THEN Walk(Tail(comps), IF stack = <<>> THEN stack ELSE Front(stack))
    ELSE Walk(Tail(comps), Append(stack, Head(comps)))

RECURSIVE Join(_)
Join(stack) == IF stack = <<>> THEN <<>> ELSE <<"/">> \o Head(stack) \o Join(Tail(stack))

\* the file an absolute path names when the system resolves it in fopen,
\* stat, unlink and rename
os_path(p) ==
    LET stack == Walk(Components(p, 1, <<>>), <<>>)
    IN  IF stack = <<>> THEN <<"/">> ELSE Join(stack)

\* stat(path, &st) == 0
libc_stat(fsv, path) == path \in DOMAIN fsv /\ fsv[path].exists

\* the errno of unlink(path) and of rename(path, ...); oserr is what the
\* system reports for a file that exists
unlink_errno(fsv, path, oserr) == IF libc_stat(fsv, path) THEN oserr ELSE "ENOENT"

\* the errno of rename(src, dst): the directory of dst must exist
rename_errno(fsv, src, dst, oserr) ==
    IF ~libc_stat(fsv, src) \/ dst \notin DOMAIN fsv THEN "ENOENT" ELSE oserr

\* the files after a successful rename(src, dst)
libc_rename(fsv, src, dst) ==
    IF src = dst THEN fsv ELSE [fsv EXCEPT ![dst] = fsv[src], ![src] = NoFile]

\* the errno of fopen(path, mode); oserr is what the system reports for a
\* file that could be opened otherwise
fopen_errno(fsv, path, mode, oserr) ==
    IF path \notin DOMAIN fsv THEN "ENOENT"
    ELSE IF mode = "r" /\ ~fsv[path].exists THEN "ENOENT"
    ELSE oserr

\* the files after a successful fopen(path, mode)
fopen_fs(fsv, path, mode) ==
    IF mode = "w" THEN [fsv EXCEPT ![path] = [exists |-> TRUE, data |-> <<>>]]
    ELSE IF mode = "a" THEN [fsv EXCEPT ![path].exists = TRUE]
    ELSE fsv

NewStream(path, mode) ==
    [open |-> TRUE, path |-> path, mode |-> mode, pos |-> 0, wbuf |-> <<>>]

(* ---------------------------- handle table ---------------------------- *)

Min(S) == CHOOSE x \in S : \A y \in S : x <= y

\* the slots the scan of a table passes that hold the id d, lowest first
Matching(sl, d) == {i \in 1..MAX_SLOTS : sl[i].id = d}

\* get_descriptor with a scan that stops one slot short
get_descriptor_short(sl, sid, file, max_linesize) ==
    IF Matching(sl, INVALID_SLOTID) \ {MAX_SLOTS} = {}
    THEN [d |-> INVALID_SLOTID, slots |-> sl, slotid |-> sid]
    ELSE LET i == Min(Matching(sl, INVALID_SLOTID))
             id1 == PreInc(sid)
             id == IF id1 = INVALID_SLOTID THEN PreInc(id1) ELSE id1
         IN  [d |-> id,
              slots |-> [sl EXCEPT ![i] =
                           [file |-> file, max_linesize |-> max_linesize, id |-> id]],
              slotid |-> id]

\* get_descriptor without the step over INVALID_SLOTID
get_descriptor_noskip(sl, sid, file, max_linesize) ==
    IF Matching(sl, INVALID_SLOTID) = {}
    THEN [d |-> INVALID_SLOTID, slots |-> sl, slotid |-> sid]
    ELSE LET i == Min(Matching(sl, INVALID_SLOTID))
             id == PreInc(sid)
         IN  [d |-> id,
              slots |-> [sl EXCEPT ![i] =
                           [file |-> file, max_linesize |-> max_linesize, id |-> id]],
              slotid |-> id]

\* get_descriptor: the id it returns (INVALID_SLOTID: no free slot) and the
\* table and counter it leaves
get_descriptor(sl, sid, file, max_linesize) ==
    IF Matching(sl, INVALID_SLOTID) = {}
    THEN [d |-> INVALID_SLOTID, slots |-> sl, slotid |-> sid]
    ELSE LET i == Min(Matching(sl, INVALID_SLOTID))
             id1 == PreInc(sid)
             id == IF id1 = INVALID_SLOTID THEN PreInc(id1) ELSE id1
         IN  [d |-> id,
              slots |-> [sl EXCEPT ![i] =
                           [file |-> file, max_linesize |-> max_linesize, id |-> id]],
              slotid |-> id]

\* get_stream without the test for INVALID_SLOTID
get_stream_nozero(sl, d) ==
    IF Matching(sl, d) = {}
    THEN [err |-> INVALID_FILEHANDLE, file |-> NULL, max_linesize |-> 0]
    ELSE LET i == Min(Matching(sl, d))
         IN  [err |-> OK, file |-> sl[i].file, max_linesize |-> sl[i].max_linesize]

\* get_stream: the error it raises (OK if none), the FILE pointer and the
\* line size limit it returns
get_stream(sl, d) ==
    IF d = INVALID_SLOTID \/ Matching(sl, d) = {}
    THEN [err |-> INVALID_FILEHANDLE, file |-> NULL, max_linesize |-> 0]
    ELSE LET i == Min(Matching(sl, d))
         IN  [err |-> OK, file |-> sl[i].file, max_linesize |-> sl[i].max_linesize]

\* utl_file_is_open answering for the id alone, without looking at the file
is_open_any(sl, d) == ~d.isnull /\ Matching(sl, d.v) # {}

\* the value utl_file_is_open returns for the argument d
is_open(sl, d) ==
    IF ~d.isnull /\ Matching(sl, d.v) # {}
    THEN sl[Min(Matching(sl, d.v))].file # NULL
    ELSE FALSE

(* ------------------------------ handlers ------------------------------ *)

\* the mode fopen is called with for the letter of open_mode ("": none)
ModeOf(c) ==
    IF c \in {"a", "A"} THEN "a"
    ELSE IF c \in {"r", "R"} THEN "r"
    ELSE IF c \in {"w", "W"} THEN "w"
    ELSE ""

\* CHECK_LINESIZE: TRUE when it raises INVALID_MAXLINESIZE
CHECK_LINESIZE(max_linesize) == max_linesize < 1 \/ max_linesize > MAX_LINESIZE

\* fopen_validate without the check of max_linesize
fopen_validate_nosize(location, filename, open_mode, max_linesize) ==
    IF location.isnull \/ filename.isnull \/ open_mode.isnull \/ max_linesize.isnull
    THEN NULL_VALUE_NOT_ALLOWED
    ELSE IF Len(open_mode.v) = 0 THEN INVALID_PARAMETER_VALUE
    ELSE IF Len(open_mode.v) # 1 THEN INVALID_MODE
    ELSE IF ModeOf(open_mode.v[1]) = "" THEN INVALID_MODE
    ELSE get_safe_path(location.v, filename.v).err

\* utl_file_fopen up to the call of fopen: the error raised (OK if none)
fopen_validate(location, filename, open_mode, max_linesize) ==
    IF location.isnull \/ filename.isnull \/ open_mode.isnull \/ max_linesize.isnull
    THEN NULL_VALUE_NOT_ALLOWED
    ELSE IF Len(open_mode.v) = 0 THEN INVALID_PARAMETER_VALUE
    ELSE IF CHECK_LINESIZE(max_linesize.v) THEN INVALID_MAXLINESIZE
    ELSE IF Len(open_mode.v) # 1 THEN INVALID_MODE
    ELSE IF ModeOf(open_mode.v[1]) = "" THEN INVALID_MODE
    ELSE get_safe_path(location.v, filename.v).err

\* utl_file_fopen; fullname is the file the system finds under the name
\* get_safe_path returns, a the address of the FILE object fopen hands out, oserr
\* the error the system reports for the open, cfail the errno of the fclose
\* on the limit path (its result is ignored)
utl_file_fopen(location, filename, open_mode, max_linesize, a, oserr, cfail) ==
    LET pre == fopen_validate(location, filename, open_mode, max_linesize)
        fullname == os_path(get_safe_path(location.v, filename.v).fullname)
        mode == ModeOf(open_mode.v[1])
    IN  IF pre # OK
        THEN /\ ret' = Ret("fopen", NullInt, NullText, pre, 0, <<>>)
             /\ UNCHANGED <<slots, slotid, streams, fs>>
        ELSE IF fopen_errno(fs, fullname, mode, oserr) # "0"
        THEN /\ ret' = Ret("fopen", NullInt, NullText,
                           IO_EXCEPTION(fopen_errno(fs, fullname, mode, oserr)), 0, <<>>)
             /\ UNCHANGED <<slots, slotid, streams, fs>>
        ELSE /\ ~streams[a].open
             /\ LET sv == [streams EXCEPT ![a] = NewStream(fullname, mode)]
                    fsv == fopen_fs(fs, fullname, mode)
                    g == get_descriptor(slots, slotid, a, max_linesize.v)
                    c == libc_fclose(sv, fsv, a, cfail)
                IN  /\ slots' = g.slots
                    /\ slotid' = g.slotid
                    /\ IF g.d = INVALID_SLOTID
                       THEN /\ streams' = c.streams
                            /\ fs' = c.fs
                            /\ ret' = Ret("fopen", NullInt, NullText,
                                          PROGRAM_LIMIT_EXCEEDED, 0, <<>>)
                       ELSE /\ streams' = sv
                            /\ fs' = fsv
                            /\ ret' = Ret("fopen", NullInt, NullText, OK, g.d, <<>>)

utl_file_is_open(d) ==
    /\ ret' = Ret("is_open", d, NullText, OK, IF is_open(slots, d) THEN 1 ELSE 0, <<>>)
    /\ UNCHANGED <<slots, slotid, streams, fs>>

\* the condition utl_file_fclose and utl_file_fclose_all raise for the errno
\* of a failed fclose
fclose_error(errno) == IF errno = "EBADF" THEN INVALID_FILEHANDLE ELSE WRITE_ERROR

\* utl_file_fclose; fail is the errno the fclose of the stream reports
utl_file_fclose(d, fail) ==
    IF Matching(slots, d.v) = {}
    THEN /\ ret' = Ret("fclose", d, NullText, INVALID_FILEHANDLE, 0, <<>>)
         /\ UNCHANGED <<slots, slotid, streams, fs>>
    ELSE LET i == Min(Matching(slots, d.v))
             c == libc_fclose(streams, fs, slots[i].file, fail)
         IN  IF slots[i].file # NULL /\ c.errno # "0"
             THEN /\ streams' = c.streams
                  /\ fs' = c.fs
                  /\ ret' = Ret("fclose", d, NullText, fclose_error(c.errno), 0, <<>>)
                  /\ UNCHANGED <<slots, slotid>>
             ELSE /\ streams' = IF slots[i].file # NULL THEN c.streams ELSE streams
                  /\ fs' = IF slots[i].file # NULL THEN c.fs ELSE fs
                  /\ slots' = [slots EXCEPT ![i].file = NULL, ![i].id = INVALID_SLOTID]
                  /\ ret' = Ret("fclose", d, NullText, OK, 0, <<>>)
                  /\ UNCHANGED slotid

\* the loop of utl_file_fclose_all from slot i on: the table, the streams and
\* the files it leaves and the error it raises; the fclose of a stream in bad
\* reports errno
RECURSIVE fclose_all_from(_, _, _, _, _, _)
fclose_all_from(i, sl, sv, fsv, bad, errno) ==
    IF i > MAX_SLOTS THEN [slots |-> sl, streams |-> sv, fs |-> fsv, err |-> OK]
    ELSE IF sl[i].id = INVALID_SLOTID THEN fclose_all_from(i + 1, sl, sv, fsv, bad, errno)
    ELSE LET c == libc_fclose(sv, fsv, sl[i].file,
                              IF sl[i].file \in bad THEN errno ELSE "0")
         IN  IF sl[i].file # NULL /\ c.errno # "0"
             THEN [slots |-> sl, streams |-> c.streams, fs |-> c.fs,
                   err |-> fclose_error(c.errno)]
             ELSE fclose_all_from(i + 1,
                      [sl EXCEPT ![i].file = NULL, ![i].id = INVALID_SLOTID],
                      IF sl[i].file # NULL THEN c.streams ELSE sv,
                      IF sl[i].file # NULL THEN c.fs ELSE fsv, bad, errno)

utl_file_fclose_all(bad, errno) ==
    LET r == fclose_all_from(1, slots, streams, fs, bad, errno)
    IN  /\ slots' = r.slots
        /\ streams' = r.streams
        /\ fs' = r.fs
        /\ ret' = Ret("fclose_all", NullInt, NullText, r.err, 0, <<>>)
        /\ UNCHANGED slotid

(* --------------------------- stream I/O -------------------------------- *)
(* A use of a FILE object that fclose has freed is undefined; the file     *)
(* descriptor behind it is closed, and the model lets each such call fail  *)
(* with EBADF.  A NULL FILE pointer never reaches stdio in the code as it  *)
(* is; where a changed table lets one through, the backend dies (SIGSEGV). *)

\* fwrite / fputc / fputs of bytes on the stream st: the errno ("0": all
\* bytes taken) and the stream after it; werr is the errno of a failing device
libc_fwrite(st, bytes, werr) ==
    IF Len(bytes) = 0 THEN [errno |-> "0", st |-> st]
    ELSE IF ~st.open \/ st.mode = "r" THEN [errno |-> "EBADF", st |-> st]
    ELSE IF werr # "0" THEN [errno |-> werr, st |-> st]
    ELSE [errno |-> "0", st |-> [st EXCEPT !.wbuf = @ \o bytes]]

\* CHECK_ERRNO_PUT: the condition raised for the errno of a failed write
CHECK_ERRNO_PUT(errno) == IF errno = "EBADF" THEN INVALID_OPERATION ELSE WRITE_ERROR

\* CHECK_LENGTH with the comparison off by one
CHECK_LENGTH_ge(l, max_linesize) == l >= max_linesize

\* CHECK_LENGTH: TRUE when it raises VALUE_ERROR
CHECK_LENGTH(l, max_linesize) == l > max_linesize

\* do_new_line(f, lines) on the stream st: the error raised and the stream
RECURSIVE do_new_line(_, _, _)
do_new_line(st, lines, werr) ==
    IF lines <= 0 THEN [err |-> OK, st |-> st]
    ELSE LET w == libc_fwrite(st, <<LF>>, werr)
         IN  IF w.errno # "0" THEN [err |-> CHECK_ERRNO_PUT(w.errno), st |-> w.st]
             ELSE do_new_line(w.st, lines - 1, werr)

\* do_flush(f) on the stream st: the error raised, the stream and the files
do_flush(st, fsv, werr) ==
    IF ~st.open THEN [err |-> INVALID_OPERATION, st |-> st, fs |-> fsv]
    ELSE IF st.mode = "r" THEN [err |-> OK, st |-> st, fs |-> fsv]
    ELSE IF werr # "0"
    THEN [err |-> IF werr = "EBADF" THEN INVALID_OPERATION ELSE WRITE_ERROR,
          st |-> st, fs |-> fsv]
    ELSE [err |-> OK,
          st |-> [st EXCEPT !.wbuf = <<>>,
                            !.pos = IF st.mode = "w" THEN @ + Len(st.wbuf) ELSE @],
          fs |-> FlushData(st, fsv)]

\* do_put: the error raised (OK if none), the FILE pointer it returns and
\* the stream after the write
do_put(sl, sv, d, buffer, werr) ==
    LET g == get_stream(sl, d.v)
        none == [err |-> OK, file |-> NULL, st |-> ClosedStream]
    IN  IF d.isnull THEN [none EXCEPT !.err = INVALID_FILEHANDLE]
        ELSE IF g.err # OK THEN [none EXCEPT !.err = g.err]
        ELSE IF buffer.isnull THEN [none EXCEPT !.err = NULL_VALUE_NOT_ALLOWED]
        ELSE IF CHECK_LENGTH(Len(buffer.v), g.max_linesize)
        THEN [none EXCEPT !.err = VALUE_ERROR]
        ELSE IF g.file = NULL THEN [none EXCEPT !.err = SIGSEGV]
        ELSE LET w == libc_fwrite(sv[g.file], buffer.v, werr)
             IN  [err |-> IF w.errno # "0" THEN CHECK_ERRNO_PUT(w.errno) ELSE OK,
                  file |-> g.file, st |-> w.st]

\* the streams with the stream at f replaced, when the call reached a stream
WithStream(sv, f, st) == IF f = NULL THEN sv ELSE [sv EXCEPT ![f] = st]

utl_file_put(d, buffer, werr) ==
    LET p == do_put(slots, streams, d, buffer, werr)
    IN  /\ streams' = WithStream(streams, p.file, p.st)
        /\ ret' = Ret("put", d, buffer, p.err, 0, <<>>)
        /\ UNCHANGED <<slots, slotid, fs>>

utl_file_put_line(d, buffer, autoflush, werr) ==
    LET p == do_put(slots, streams, d, buffer, werr)
        n == do_new_line(p.st, 1, werr)
        f == do_flush(n.st, fs, werr)
    IN  IF p.err # OK
        THEN /\ streams' = WithStream(streams, p.file, p.st)
             /\ ret' = Ret("put_line", d, buffer, p.err, 0, <<>>)
             /\ UNCHANGED <<slots, slotid, fs>>
        ELSE IF n.err # OK \/ ~autoflush
        THEN /\ streams' = WithStream(streams, p.file, n.st)
             /\ ret' = Ret("put_line", d, buffer, n.err, 0, <<>>)
             /\ UNCHANGED <<slots, slotid, fs>>
        ELSE /\ streams' = WithStream(streams, p.file, f.st)
             /\ fs' = f.fs
             /\ ret' = Ret("put_line", d, buffer, f.err, 0, <<>>)
             /\ UNCHANGED <<slots, slotid>>

\* utl_file_new_line; lines is the count argument (NULL: one line)
utl_file_new_line(d, lines, werr) ==
    LET g == get_stream(slots, d.v)
        stop == d.isnull \/ g.err # OK \/ g.file = NULL
        n == do_new_line(streams[g.file], IF lines.isnull THEN 1 ELSE lines.v, werr)
        err == IF d.isnull THEN INVALID_FILEHANDLE
               ELSE IF g.err # OK THEN g.err
               ELSE IF g.file = NULL THEN SIGSEGV
               ELSE n.err
    IN  /\ streams' = IF stop THEN streams ELSE [streams EXCEPT ![g.file] = n.st]
        /\ ret' = Ret("new_line", d, NullText, err, 0, <<>>)
        /\ UNCHANGED <<slots, slotid, fs>>

utl_file_fflush(d, werr) ==
    LET g == get_stream(slots, d.v)
        stop == d.isnull \/ g.err # OK \/ g.file = NULL
        f == do_flush(streams[g.file], fs, werr)
        err == IF d.isnull THEN INVALID_FILEHANDLE
               ELSE IF g.err # OK THEN g.err
               ELSE IF g.file = NULL THEN SIGSEGV
               ELSE f.err
    IN  /\ streams' = IF stop THEN streams ELSE [streams EXCEPT ![g.file] = f.st]
        /\ fs' = IF stop THEN fs ELSE f.fs
        /\ ret' = Ret("fflush", d, NullText, err, 0, <<>>)
        /\ UNCHANGED <<slots, slotid>>

(* ------------------------------ reading ------------------------------- *)

\* the bytes a read of the stream st sees
DataOf(st, fsv) ==
    IF st.path \in DOMAIN fsv /\ fsv[st.path].exists THEN fsv[st.path].data ELSE <<>>

\* fgetc on a stream at offset pos, the k-th fgetc of the call (from 0):
\* the character ("EOF": none) and errno; the read number rfail.at fails
\* with rfail.errno
libc_fgetc(st, data, pos, k, errno, rfail) ==
    IF ~st.open \/ st.mode # "r" THEN [c |-> "EOF", errno |-> "EBADF"]
    ELSE IF k = rfail.at THEN [c |-> "EOF", errno |-> rfail.errno]
    ELSE IF pos >= Len(data) THEN [c |-> "EOF", errno |-> errno]
    ELSE [c |-> data[pos + 1], errno |-> errno]

NoReadFail == [at |-> -1, errno |-> "0"]

\* pg_verifymbstr: TRUE when the text is well formed ("xFF" stands for a
\* byte that is not)
pg_verifymbstr(buf) == \A i \in 1..Len(buf) : buf[i] # "xFF"

CHARACTER_NOT_IN_REPERTOIRE == "ERRCODE_CHARACTER_NOT_IN_REPERTOIRE"

\* get_line_result that takes an empty line for the end of the stream
get_line_result_empty(pos, buf, eof, errno) ==
    IF ~eof /\ buf # <<>>
    THEN [err |-> IF pg_verifymbstr(buf) THEN OK ELSE CHARACTER_NOT_IN_REPERTOIRE,
          line |-> buf, iseof |-> FALSE, pos |-> pos]
    ELSE [err |-> IF errno = "0" THEN OK
                  ELSE IF errno = "EBADF" THEN INVALID_OPERATION
                  ELSE READ_ERROR,
          line |-> <<>>, iseof |-> TRUE, pos |-> pos]

\* get_line after its loop: eof is the flag, errno what the reads left
get_line_result(pos, buf, eof, errno) ==
    IF ~eof
    THEN [err |-> IF pg_verifymbstr(buf) THEN OK ELSE CHARACTER_NOT_IN_REPERTOIRE,
          line |-> buf, iseof |-> FALSE, pos |-> pos]
    ELSE [err |-> IF errno = "0" THEN OK
                  ELSE IF errno = "EBADF" THEN INVALID_OPERATION
                  ELSE READ_ERROR,
          line |-> <<>>, iseof |-> TRUE, pos |-> pos]

\* the loop of get_line: csize = Len(buf)
RECURSIVE get_line_loop(_, _, _, _, _, _, _, _, _)
get_line_loop(st, data, max_linesize, rfail, pos, buf, eof, k, errno) ==
    IF Len(buf) >= max_linesize THEN get_line_result(pos, buf, eof, errno)
    ELSE LET g == libc_fgetc(st, data, pos, k, errno, rfail)
             g2 == libc_fgetc(st, data, pos + 1, k + 1, g.errno, rfail)
         IN  IF g.c = "EOF" THEN get_line_result(pos, buf, eof, g.errno)
             ELSE IF g.c = CR
             THEN IF g2.c = "EOF" THEN get_line_result(pos + 1, buf, FALSE, g2.errno)
                  ELSE IF g2.c # LF THEN get_line_result(pos + 1, buf, FALSE, g2.errno)
                  ELSE get_line_result(pos + 2, buf, FALSE, g2.errno)
             ELSE IF g.c = LF THEN get_line_result(pos + 1, buf, FALSE, g.errno)
             ELSE get_line_loop(st, data, max_linesize, rfail, pos + 1,
                                Append(buf, g.c), FALSE, k + 1, g.errno)

\* get_line with a loop that reads one character beyond max_linesize
get_line_over(st, data, max_linesize, rfail) ==
    get_line_loop(st, data, max_linesize + 1, rfail, st.pos, <<>>, TRUE, 0, "0")

\* get_line(f, max_linesize, &iseof): the error raised, the line, iseof and
\* the offset the stream is left at
get_line(st, data, max_linesize, rfail) ==
    get_line_loop(st, data, max_linesize, rfail, st.pos, <<>>, TRUE, 0, "0")

\* utl_file_get_line; len is the optional second argument
utl_file_get_line(d, len, rfail) ==
    LET g == get_stream(slots, d.v)
        max_linesize == IF ~len.isnull /\ g.max_linesize > len.v THEN len.v
                        ELSE g.max_linesize
        r == get_line(streams[g.file], DataOf(streams[g.file], fs), max_linesize, rfail)
    IN  IF d.isnull \/ g.err # OK
        THEN /\ ret' = Ret("get_line", d, NullText, INVALID_FILEHANDLE, 0, <<>>)
             /\ UNCHANGED <<slots, slotid, streams, fs>>
        ELSE IF ~len.isnull /\ CHECK_LINESIZE(len.v)
        THEN /\ ret' = Ret("get_line", d, NullText, INVALID_MAXLINESIZE, 0, <<>>)
             /\ UNCHANGED <<slots, slotid, streams, fs>>
        ELSE IF g.file = NULL
        THEN /\ ret' = Ret("get_line", d, NullText, SIGSEGV, 0, <<>>)
             /\ UNCHANGED <<slots, slotid, streams, fs>>
        ELSE /\ streams' = [streams EXCEPT ![g.file].pos =
                               IF streams[g.file].open THEN r.pos ELSE @]
             /\ ret' = Ret("get_line", d, NullText,
                           IF r.err # OK THEN r.err
                           ELSE IF r.iseof THEN NO_DATA_FOUND ELSE OK,
                           0, IF r.err = OK THEN r.line ELSE <<>>)
             /\ UNCHANGED <<slots, slotid, fs>>

\* utl_file_get_nextline; rint = 1 in the outcome: it returned NULL
utl_file_get_nextline(d, rfail) ==
    LET g == get_stream(slots, d.v)
        r == get_line(streams[g.file], DataOf(streams[g.file], fs), g.max_linesize, rfail)
    IN  IF d.isnull \/ g.err # OK
        THEN /\ ret' = Ret("get_nextline", d, NullText, INVALID_FILEHANDLE, 0, <<>>)
             /\ UNCHANGED <<slots, slotid, streams, fs>>
        ELSE IF g.file = NULL
        THEN /\ ret' = Ret("get_nextline", d, NullText, SIGSEGV, 0, <<>>)
             /\ UNCHANGED <<slots, slotid, streams, fs>>
        ELSE /\ streams' = [streams EXCEPT ![g.file].pos =
                               IF streams[g.file].open THEN r.pos ELSE @]
             /\ ret' = Ret("get_nextline", d, NullText, r.err,
                           IF r.err = OK /\ r.iseof THEN 1 ELSE 0,
                           IF r.err = OK THEN r.line ELSE <<>>)
             /\ UNCHANGED <<slots, slotid, fs>>

(* --------------------------- formatted write -------------------------- *)

BACKSLASH == "\\"

\* putf_emit without the check of the running length
putf_emit_nocheck(st, bytes, cur_len, max_linesize, werr) ==
    LET w == libc_fwrite(st, bytes, werr)
    IN  [err |-> IF w.errno # "0" THEN CHECK_ERRNO_PUT(w.errno) ELSE OK, st |-> w.st]

\* one step of the loop of utl_file_putf that writes bytes after counting
\* them: the error raised and the stream
putf_emit(st, bytes, cur_len, max_linesize, werr) ==
    IF CHECK_LENGTH(cur_len, max_linesize) THEN [err |-> VALUE_ERROR, st |-> st]
    ELSE LET w == libc_fwrite(st, bytes, werr)
         IN  [err |-> IF w.errno # "0" THEN CHECK_ERRNO_PUT(w.errno) ELSE OK, st |-> w.st]

\* the loop of utl_file_putf from the i-th character of format on; args are
\* the arguments arg1..arg5
RECURSIVE putf_loop(_, _, _, _, _, _, _, _)
putf_loop(st, format, i, args, max_linesize, cur_par, cur_len, werr) ==
    IF i > Len(format) THEN [err |-> OK, st |-> st]
    ELSE IF i = Len(format)
    THEN LET e == putf_emit(st, <<format[i]>>, cur_len + 1, max_linesize, werr)
         IN  IF e.err # OK THEN e
             ELSE putf_loop(e.st, format, i + 1, args, max_linesize, cur_par, cur_len + 1, werr)
    ELSE IF format[i] = BACKSLASH /\ format[i + 1] = "n"
    THEN LET e == putf_emit(st, <<LF>>, cur_len + 1, max_linesize, werr)
         IN  IF e.err # OK THEN e
             ELSE putf_loop(e.st, format, i + 2, args, max_linesize, cur_par, cur_len + 1, werr)
    ELSE IF format[i] = "%"
    THEN IF format[i + 1] = "%"
         THEN LET e == putf_emit(st, <<"%">>, cur_len + 1, max_linesize, werr)
              IN  IF e.err # OK THEN e
                  ELSE putf_loop(e.st, format, i + 2, args, max_linesize, cur_par,
                                 cur_len + 1, werr)
         ELSE IF format[i + 1] = "s"
         THEN IF cur_par + 1 <= 5 /\ ~args[cur_par + 1].isnull
              THEN LET bfsize == Len(args[cur_par + 1].v)
                       e == putf_emit(st, args[cur_par + 1].v, cur_len + bfsize,
                                      max_linesize, werr)
                   IN  IF e.err # OK THEN e
                       ELSE putf_loop(e.st, format, i + 2, args, max_linesize,
                                      cur_par + 1, cur_len + bfsize, werr)
              ELSE putf_loop(st, format, i + 2, args, max_linesize, cur_par + 1,
                             cur_len, werr)
         ELSE putf_loop(st, format, i + 2, args, max_linesize, cur_par, cur_len, werr)
    ELSE LET e == putf_emit(st, <<format[i]>>, cur_len + 1, max_linesize, werr)
         IN  IF e.err # OK THEN e
             ELSE putf_loop(e.st, format, i + 1, args, max_linesize, cur_par, cur_len + 1, werr)

\* utl_file_putf that counts its arguments from arg2
utl_file_putf_shift(d, format, args, werr) ==
    LET g == get_stream(slots, d.v)
        stop == d.isnull \/ g.err # OK \/ format.isnull \/ g.file = NULL
        r == putf_loop(streams[g.file], format.v, 1, args, g.max_linesize, 1, 0, werr)
        err == IF d.isnull THEN INVALID_FILEHANDLE
               ELSE IF g.err # OK THEN g.err
               ELSE IF format.isnull THEN NULL_VALUE_NOT_ALLOWED
               ELSE IF g.file = NULL THEN SIGSEGV
               ELSE r.err
    IN  /\ streams' = IF stop THEN streams ELSE [streams EXCEPT ![g.file] = r.st]
        /\ ret' = Ret("putf", d, format, err, 0, <<>>)
        /\ UNCHANGED <<slots, slotid, fs>>

utl_file_putf(d, format, args, werr) ==
    LET g == get_stream(slots, d.v)
        stop == d.isnull \/ g.err # OK \/ format.isnull \/ g.file = NULL
        r == putf_loop(streams[g.file], format.v, 1, args, g.max_linesize, 0, 0, werr)
        err == IF d.isnull THEN INVALID_FILEHANDLE
               ELSE IF g.err # OK THEN g.err
               ELSE IF format.isnull THEN NULL_VALUE_NOT_ALLOWED
               ELSE IF g.file = NULL THEN SIGSEGV
               ELSE r.err
    IN  /\ streams' = IF stop THEN streams ELSE [streams EXCEPT ![g.file] = r.st]
        /\ ret' = Ret("putf", d, format, err, 0, <<>>)
        /\ UNCHANGED <<slots, slotid, fs>>

(* --------------------------- file operations -------------------------- *)

NullBool == [isnull |-> TRUE, v |-> FALSE]

\* NOT_NULL_ARG on the arguments, then get_safe_path: the error raised (OK
\* if none)
path_validate(location, filename) ==
    IF location.isnull \/ filename.isnull THEN NULL_VALUE_NOT_ALLOWED
    ELSE get_safe_path(location.v, filename.v).err

\* utl_file_fremove; oserr is the error the system reports for the unlink
utl_file_fremove(location, filename, oserr) ==
    LET pre == path_validate(location, filename)
        fullname == os_path(get_safe_path(location.v, filename.v).fullname)
        errno == unlink_errno(fs, fullname, oserr)
    IN  /\ ret' = Ret("fremove", NullInt, NullText,
                      IF pre # OK THEN pre
                      ELSE IF errno # "0" THEN IO_EXCEPTION(errno) ELSE OK,
                      0, <<>>)
        /\ fs' = IF pre = OK /\ errno = "0" THEN [fs EXCEPT ![fullname] = NoFile] ELSE fs
        /\ UNCHANGED <<slots, slotid, streams>>

\* utl_file_frename without the test of the destination
utl_file_frename_nostat(location, filename, dest_dir, dest_file, overwrite_arg, oserr) ==
    LET nulls == location.isnull \/ filename.isnull \/ dest_dir.isnull \/ dest_file.isnull
        src == get_safe_path(location.v, filename.v)
        dst == get_safe_path(dest_dir.v, dest_file.v)
        srcpath == os_path(src.fullname)
        dstpath == os_path(dst.fullname)
        errno == rename_errno(fs, srcpath, dstpath, oserr)
        err == IF nulls THEN NULL_VALUE_NOT_ALLOWED
               ELSE IF src.err # OK THEN src.err
               ELSE IF dst.err # OK THEN dst.err
               ELSE IF errno # "0" THEN IO_EXCEPTION(errno)
               ELSE OK
    IN  /\ ret' = Ret("frename", NullInt, NullText, err, 0, <<>>)
        /\ fs' = IF err = OK THEN libc_rename(fs, srcpath, dstpath) ELSE fs
        /\ UNCHANGED <<slots, slotid, streams>>

\* utl_file_frename; oserr is the error the system reports for the rename
utl_file_frename(location, filename, dest_dir, dest_file, overwrite_arg, oserr) ==
    LET nulls == location.isnull \/ filename.isnull \/ dest_dir.isnull \/ dest_file.isnull
        overwrite == ~overwrite_arg.isnull /\ overwrite_arg.v
        src == get_safe_path(location.v, filename.v)
        dst == get_safe_path(dest_dir.v, dest_file.v)
        srcpath == os_path(src.fullname)
        dstpath == os_path(dst.fullname)
        errno == rename_errno(fs, srcpath, dstpath, oserr)
        err == IF nulls THEN NULL_VALUE_NOT_ALLOWED
               ELSE IF src.err # OK THEN src.err
               ELSE IF dst.err # OK THEN dst.err
               ELSE IF ~overwrite /\ libc_stat(fs, dstpath) THEN WRITE_ERROR
               ELSE IF errno # "0" THEN IO_EXCEPTION(errno)
               ELSE OK
    IN  /\ ret' = Ret("frename", NullInt, NullText, err, 0, <<>>)
        /\ fs' = IF err = OK THEN libc_rename(fs, srcpath, dstpath) ELSE fs
        /\ UNCHANGED <<slots, slotid, streams>>

\* utl_file_fgetattr: rtext tells whether the file exists, rint is its size
utl_file_fgetattr(location, filename) ==
    LET pre == path_validate(location, filename)
        fullname == os_path(get_safe_path(location.v, filename.v).fullname)
        found == pre = OK /\ libc_stat(fs, fullname)
    IN  /\ ret' = Ret("fgetattr", NullInt, NullText, pre,
                      IF found THEN Len(fs[fullname].data) ELSE 0,
                      IF pre # OK THEN <<>> ELSE IF found THEN <<"t">> ELSE <<"f">>)
        /\ UNCHANGED <<slots, slotid, streams, fs>>

(* --------------------------- specifications --------------------------- *)

\* the occupied slots of a table and the ids they hold
OccupiedIn(sl) == {i \in 1..MAX_SLOTS : sl[i].id # INVALID_SLOTID}
Occupied == OccupiedIn(slots)
IdsIn(sl) == {sl[i].id : i \in OccupiedIn(sl)}

F1 == <<"/", "d", "/", "f">>
F2 == <<"/", "d", "/", "g">>

\* a file outside the directories of utl_file_dir
FE == <<"/", "e">>

\* the names the file system of the environment knows
FsPaths == {F1, F2, FE, regress_orafce}

RtIdle == [pc |-> "idle", text |-> <<>>, max |-> 0, h |-> 0, first |-> NoCall,
           second |-> NoCall]

Init ==
    /\ slots = [i \in 1..MAX_SLOTS |-> FreeSlot]
    /\ slotid = 0
    /\ streams = [a \in Addr |-> ClosedStream]
    /\ fs = [p \in FsPaths |-> NoFile]
    /\ ret = NoCall
    /\ rt = RtIdle

Handles == {Arg(d) : d \in Int32} \cup {NullInt}

CloseErrnos == {"0", "EBADF", "EIO"}

\* the addresses fopen can hand out: FILE objects are allocated from the
\* heap, so a new one lies at an address no slot refers to (all of them
\* alike: the lowest stands for them) or at the address of a FILE object
\* that was freed while a slot kept pointing at it
Referenced == {slots[i].file : i \in 1..MAX_SLOTS} \ {NULL}
Fresh == {a \in Addr : ~streams[a].open /\ a \notin Referenced}
Dangling == {a \in Referenced : ~streams[a].open}
FopenAddr == (IF Fresh = {} THEN {} ELSE {Min(Fresh)}) \cup Dangling

\* a session that opens, probes and closes handles
TableOpen ==
    \E a \in FopenAddr, oserr \in {"0", "EMFILE"} :
        /\ utl_file_fopen(Arg(<<"/", "d">>), Arg(<<"f">>), Arg(<<"w">>), Arg(1), a, oserr, "0")
        /\ UNCHANGED rt

TableIsOpen == \E d \in Handles : utl_file_is_open(d) /\ UNCHANGED rt

TableClose == \E d \in Handles, fail \in CloseErrnos : utl_file_fclose(d, fail) /\ UNCHANGED rt

TableCloseAll ==
    \E bad \in SUBSET Referenced, errno \in {"EBADF", "EIO"} :
        utl_file_fclose_all(bad, errno) /\ UNCHANGED rt

Next == TableOpen \/ TableIsOpen \/ TableClose \/ TableCloseAll

Spec == Init /\ [][Next]_vars

(* A session that reads and writes one file through its handles.  Streams  *)
(* close cleanly here; files and stream buffers hold at most MaxData bytes *)
(* and the session has one handle open at a time, for two opens.          *)

RECURSIVE Repeat(_, _)
Repeat(c, n) == IF n = 0 THEN <<>> ELSE <<c>> \o Repeat(c, n - 1)

\* the line size the streams are opened with
LineSize == MaxData - 1

\* the buffers written: empty, of the line size, one longer, and NULL
Buffers == {Arg(Repeat("a", n)) : n \in {0, LineSize, LineSize + 1}} \cup {NullText}

Formats == {Arg(<<"a">>), Arg(<<"%", "s">>), Arg(<<BACKSLASH, "n">>), NullText}

PutfArgs == <<Arg(<<"a">>), NullText, NullText, NullText, NullText>>

WriteErrnos == {"0", "ENOSPC"}

LineCounts == {NullInt, Arg(2)}

LenArgs == {NullInt, Arg(1)}

ReadFails == {NoReadFail, [at |-> 0, errno |-> "EIO"]}

\* the environment's files hold at most MaxData characters, those a stream
\* has not written out yet included
DataCap ==
    /\ \A p \in FsPaths : Len(fs'[p].data) <= MaxData
    /\ \A a \in Addr :
          LET st == streams'[a]
          IN  Len(st.wbuf) + (IF st.path \in FsPaths THEN Len(fs'[st.path].data) ELSE 0)
                  <= MaxData

IOOpen ==
    \E m \in {"w", "r"}, a \in FopenAddr :
        /\ Occupied = {}
        /\ slotid \in {0, 1}
        /\ utl_file_fopen(Arg(<<"/", "d">>), Arg(<<"f">>), Arg(<<m>>), Arg(LineSize), a, "0", "0")
        /\ UNCHANGED rt

IOClose == \E d \in Handles : utl_file_fclose(d, "0") /\ DataCap /\ UNCHANGED rt

IOPut ==
    \E d \in Handles, buffer \in Buffers, werr \in WriteErrnos :
        utl_file_put(d, buffer, werr) /\ DataCap /\ UNCHANGED rt

IOPutLine ==
    \E d \in Handles, buffer \in Buffers, autoflush \in BOOLEAN :
        utl_file_put_line(d, buffer, autoflush, "0") /\ DataCap /\ UNCHANGED rt

IONewLine ==
    \E d \in Handles, lines \in LineCounts :
        utl_file_new_line(d, lines, "0") /\ DataCap /\ UNCHANGED rt

IOPutf ==
    \E d \in Handles, format \in Formats :
        utl_file_putf(d, format, PutfArgs, "0") /\ DataCap /\ UNCHANGED rt

IOFlush ==
    \E d \in Handles, werr \in WriteErrnos :
        utl_file_fflush(d, werr) /\ DataCap /\ UNCHANGED rt

IOGetLine ==
    \E d \in Handles, len \in LenArgs, rfail \in ReadFails :
        utl_file_get_line(d, len, rfail) /\ UNCHANGED rt

IOGetNextLine ==
    \E d \in Handles : utl_file_get_nextline(d, NoReadFail) /\ UNCHANGED rt

NextIO ==
    \/ IOOpen \/ IOClose \/ IOPut \/ IOPutLine \/ IONewLine \/ IOPutf
    \/ IOFlush \/ IOGetLine \/ IOGetNextLine

SpecIO == Init /\ [][NextIO]_vars

(* The round trip of one line: the text rt.text is written with put_line   *)
(* through a handle opened for writing with the limit rt.max, the handle   *)
(* is closed, and the file is read twice through a handle opened for       *)
(* reading with the same limit.                                            *)

RECURSIVE SeqsOf(_, _)
SeqsOf(S, n) ==
    IF n = 0 THEN {<<>>}
    ELSE LET shorter == SeqsOf(S, n - 1)
         IN  shorter \cup {Append(t, c) : t \in {u \in shorter : Len(u) = n - 1}, c \in S}

\* the texts without line terminators
Texts == SeqsOf({"a", "b"}, MaxData)

InitRT ==
    /\ slots = [i \in 1..MAX_SLOTS |-> FreeSlot]
    /\ slotid = 0
    /\ streams = [a \in Addr |-> ClosedStream]
    /\ fs = [p \in FsPaths |-> NoFile]
    /\ ret = NoCall
    /\ rt \in {[RtIdle EXCEPT !.pc = "start", !.text = t, !.max = m] :
                  t \in Texts, m \in 1..MaxData}

RTOpen(from, mode, to) ==
    /\ rt.pc = from
    /\ \E a \in FopenAddr :
          utl_file_fopen(Arg(<<"/", "d">>), Arg(<<"f">>), Arg(<<mode>>), Arg(rt.max), a, "0", "0")
    /\ rt' = [rt EXCEPT !.pc = to, !.h = ret'.rint]

RTOpenW == RTOpen("start", "w", "opened_w")

RTWrite ==
    /\ rt.pc = "opened_w"
    /\ utl_file_put_line(Arg(rt.h), Arg(rt.text), FALSE, "0")
    /\ rt' = [rt EXCEPT !.pc = IF ret'.err = OK THEN "written" ELSE "rejected"]

RTCloseW ==
    /\ rt.pc = "written"
    /\ utl_file_fclose(Arg(rt.h), "0")
    /\ rt' = [rt EXCEPT !.pc = "closed_w"]

RTOpenR == RTOpen("closed_w", "r", "opened_r")

RTRead1 ==
    /\ rt.pc = "opened_r"
    /\ \/ utl_file_get_line(Arg(rt.h), NullInt, NoReadFail)
       \/ utl_file_get_nextline(Arg(rt.h), NoReadFail)
    /\ rt' = [rt EXCEPT !.pc = "read1", !.first = ret']

RTRead2 ==
    /\ rt.pc = "read1"
    /\ \/ utl_file_get_line(Arg(rt.h), NullInt, NoReadFail)
       \/ utl_file_get_nextline(Arg(rt.h), NoReadFail)
    /\ rt' = [rt EXCEPT !.pc = "done", !.second = ret']

NextRT == RTOpenW \/ RTWrite \/ RTCloseW \/ RTOpenR \/ RTRead1 \/ RTRead2

SpecRT == InitRT /\ [][NextRT]_vars

\* a read outcome that reports end-of-stream: get_line raises NO_DATA_FOUND,
\* get_nextline returns NULL
IsEof(r) ==
    \/ r.op = "get_line" /\ r.err = NO_DATA_FOUND
    \/ r.op = "get_nextline" /\ r.err = OK /\ r.rint = 1

(* --------------------------- handle scenario --------------------------- *)
(* A session that opens, probes, flushes and closes handles and follows    *)
(* one of the handles it was given: rt.h is that handle (0: none yet),     *)
(* rt.since the successful opens after the one that returned it (the count *)
(* stops at NumIds) and rt.closed whether an fclose of it has succeeded.   *)

\* the values slotid takes: every value of the id type but INVALID_SLOTID
NumIds == Pow2(IdBits) - 1

InitID ==
    /\ slots = [i \in 1..MAX_SLOTS |-> FreeSlot]
    /\ slotid = 0
    /\ streams = [a \in Addr |-> ClosedStream]
    /\ fs = [p \in FsPaths |-> NoFile]
    /\ ret = NoCall
    /\ rt = [pc |-> "id", h |-> 0, since |-> 0, closed |-> FALSE]

IDOpen ==
    \E a \in FopenAddr, oserr \in {"0", "EMFILE"}, follow \in BOOLEAN :
        /\ utl_file_fopen(Arg(<<"/", "d">>), Arg(<<"f">>), Arg(<<"w">>), Arg(1), a, oserr, "0")
        /\ rt' = IF ret'.err # OK THEN rt
                 ELSE IF rt.h = 0
                 THEN IF follow THEN [rt EXCEPT !.h = ret'.rint] ELSE rt
                 ELSE [rt EXCEPT !.since = IF @ < NumIds THEN @ + 1 ELSE @]

IDClose ==
    \E d \in Handles, fail \in CloseErrnos :
        /\ utl_file_fclose(d, fail)
        /\ rt' = IF rt.h # 0 /\ d = Arg(rt.h) /\ ret'.err = OK
                 THEN [rt EXCEPT !.closed = TRUE]
                 ELSE rt

IDIsOpen == \E d \in Handles : utl_file_is_open(d) /\ UNCHANGED rt

IDFlush == \E d \in Handles : utl_file_fflush(d, "0") /\ UNCHANGED rt

NextID == IDOpen \/ IDClose \/ IDIsOpen \/ IDFlush

SpecID == InitID /\ [][NextID]_vars

(* ----------------------- file operations scenario ---------------------- *)
(* Calls of fopen, fclose, fremove, frename and fgetattr with directory    *)
(* and file names inside and outside utl_file_dir, on files that exist     *)
(* before the session.  The script keeps the arguments of the last call;   *)
(* it removes and renames files only while it has no stream open.          *)

PathArg(location, filename) == [location |-> location, filename |-> filename]

\* /d/f and /d/g
InDir == {PathArg(Arg(<<"/", "d">>), Arg(<<"f">>)), PathArg(Arg(<<"/", "d">>), Arg(<<"g">>))}

\* /d/../e, which leaves /d
Escaping == {PathArg(Arg(<<"/", "d">>), Arg(<<".", ".", "/", "e">>))}

\* other spellings: /dd/f in a sibling of /d, /d//f, /d/./f, /d/g/.., //e,
\* the path let through without a lookup, an empty name, a NULL name
OtherPaths ==
    {PathArg(Arg(<<"/", "d", "d">>), Arg(<<"f">>)),
     PathArg(Arg(<<"/", "d", "/">>), Arg(<<"f">>)),
     PathArg(Arg(<<"/", "d">>), Arg(<<".", "/", "f">>)),
     PathArg(Arg(<<"/", "d">>), Arg(<<"g", "/", ".", ".">>)),
     PathArg(Arg(<<"/">>), Arg(<<"e">>)),
     PathArg(Arg(<<"/">>), Arg(<<"t">>)),
     PathArg(Arg(<<"/", "d">>), Arg(<<>>)),
     PathArg(Arg(<<"/", "d">>), NullText)}

PathArgs == InDir \cup Escaping \cup OtherPaths

OpenModes ==
    {Arg(<<"w">>), Arg(<<"R">>), Arg(<<"x">>), Arg(<<>>), Arg(<<"r", "w">>), NullText}

LineSizes == {Arg(1), Arg(0), Arg(MAX_LINESIZE), Arg(MAX_LINESIZE + 1), NullInt}

\* the files before the session: /d/f and /d/g absent or with a content of
\* their own, the files outside utl_file_dir present
FilesBefore ==
    {[p \in FsPaths |->
         IF p = F1 THEN f ELSE IF p = F2 THEN g ELSE [exists |-> TRUE, data |-> <<"c">>]] :
        f \in {NoFile, [exists |-> TRUE, data |-> <<"a">>]},
        g \in {NoFile, [exists |-> TRUE, data |-> <<"b">>]}}

NoArgs ==
    [src |-> PathArg(NullText, NullText), dst |-> PathArg(NullText, NullText),
     overwrite |-> NullBool, mode |-> NullText, max |-> NullInt, oserr |-> "0"]

InitFS ==
    /\ slots = [i \in 1..MAX_SLOTS |-> FreeSlot]
    /\ slotid = 0
    /\ streams = [a \in Addr |-> ClosedStream]
    /\ fs \in FilesBefore
    /\ ret = NoCall
    /\ rt = [pc |-> "fs", h |-> 0, call |-> NoArgs]

NoStreamOpen == \A a \in Addr : ~streams[a].open

\* the arguments of the opens: every path with a valid mode and line size,
\* and every mode and line size with the path /d/f
OpenArgs ==
    {[path |-> p, mode |-> Arg(<<"w">>), max |-> Arg(1)] : p \in PathArgs}
        \cup {[path |-> PathArg(Arg(<<"/", "d">>), Arg(<<"f">>)), mode |-> m, max |-> l] :
                  m \in OpenModes, l \in LineSizes}

FSOpen ==
    \E o \in OpenArgs, a \in FopenAddr :
        /\ NoStreamOpen
        /\ slotid = 0
        /\ utl_file_fopen(o.path.location, o.path.filename, o.mode, o.max, a, "0", "0")
        /\ rt' = [rt EXCEPT !.h = ret'.rint,
                            !.call = [NoArgs EXCEPT !.src = o.path, !.mode = o.mode,
                                                    !.max = o.max]]

FSClose ==
    /\ ~NoStreamOpen
    /\ utl_file_fclose(Arg(rt.h), "0")
    /\ rt' = [rt EXCEPT !.call = NoArgs]

FSRemove ==
    \E p \in PathArgs :
        /\ NoStreamOpen
        /\ utl_file_fremove(p.location, p.filename, "0")
        /\ rt' = [rt EXCEPT !.call = [NoArgs EXCEPT !.src = p]]

FSRename ==
    \E p \in InDir \cup Escaping, q \in InDir \cup Escaping,
       overwrite \in {NullBool, Arg(TRUE), Arg(FALSE)}, oserr \in {"0"} :
        /\ NoStreamOpen
        /\ utl_file_frename(p.location, p.filename, q.location, q.filename, overwrite, oserr)
        /\ rt' = [rt EXCEPT !.call = [NoArgs EXCEPT !.src = p, !.dst = q,
                                                    !.overwrite = overwrite,
                                                    !.oserr = oserr]]

FSGetAttr ==
    \E p \in PathArgs :
        /\ utl_file_fgetattr(p.location, p.filename)
        /\ rt' = [rt EXCEPT !.call = [NoArgs EXCEPT !.src = p]]

NextFS == FSOpen \/ FSClose \/ FSRemove \/ FSRename \/ FSGetAttr

SpecFS == InitFS /\ [][NextFS]_vars

(* --------------------------- reading scenario -------------------------- *)
(* A file that exists before the session is opened for reading and read    *)
(* line by line.  The script keeps what the caller knows: the limit of the *)
(* last read (lim), whether a failure of the underlying read was injected  *)
(* into it (fault), the lines returned so far, concatenated (got), and     *)
(* whether every read so far returned a line (clean).                      *)

\* the contents of the file: text, line terminators, a malformed byte
Contents == SeqsOf({"a", "b", LF, CR, "xFF"}, MaxData)

\* the read of the call that fails, if any, and its errno
ReadFaults ==
    {NoReadFail, [at |-> 0, errno |-> "EBADF"], [at |-> 0, errno |-> "EIO"],
     [at |-> 1, errno |-> "EIO"]}

InitRD ==
    /\ slots = [i \in 1..MAX_SLOTS |-> FreeSlot]
    /\ slotid = 0
    /\ streams = [a \in Addr |-> ClosedStream]
    /\ \E data \in Contents : fs = [p \in FsPaths |-> [exists |-> TRUE, data |-> data]]
    /\ ret = NoCall
    /\ rt \in {[pc |-> "rd_start", max |-> m, h |-> 0, lim |-> m, fault |-> NoReadFail,
                got |-> <<>>, clean |-> TRUE] : m \in {1, LineSize}}

RDOpen == RTOpen("rd_start", "r", "rd_open")

\* the script after a read with the second argument len
RDNote(len, rfail) ==
    rt' = [rt EXCEPT !.lim = IF len.isnull THEN rt.max ELSE Min({rt.max, len.v}),
                     !.fault = rfail,
                     !.got = IF ret'.err = OK /\ ~IsEof(ret') THEN @ \o ret'.rtext ELSE @,
                     !.clean = @ /\ rfail = NoReadFail /\ ret'.err \in {OK, NO_DATA_FOUND}]

RDGetLine ==
    /\ rt.pc = "rd_open"
    /\ \E len \in LenArgs, rfail \in ReadFaults :
          utl_file_get_line(Arg(rt.h), len, rfail) /\ RDNote(len, rfail)

RDGetNextLine ==
    /\ rt.pc = "rd_open"
    /\ \E rfail \in ReadFaults :
          utl_file_get_nextline(Arg(rt.h), rfail) /\ RDNote(NullInt, rfail)

NextRD == RDOpen \/ RDGetLine \/ RDGetNextLine

SpecRD == InitRD /\ [][NextRD]_vars

(* --------------------------- putf scenario ----------------------------- *)
(* One putf call on a freshly opened stream: fopen for writing with the    *)
(* line size of the script, then putf with its format and its arguments.   *)

MaxFmt == 4

\* the characters formats are made of
PutfAlphabet == {"a", "%", "s", BACKSLASH, "n"}

RECURSIVE RepeatSeq(_, _)
RepeatSeq(s, n) == IF n = 0 THEN <<>> ELSE s \o RepeatSeq(s, n - 1)

\* every short format, a mixed one, and formats with more %s than arguments
PutfFormats ==
    SeqsOf(PutfAlphabet, MaxFmt)
        \cup {<<"a", "%", "s", "b", BACKSLASH, "n", "c">>}
        \cup {RepeatSeq(<<"%", "s">>, n) \o <<"a">> : n \in 5..6}

\* arg1..arg5: arg1 is NULL, "X" or "XX", arg2 is NULL or "2", arg3..arg5
\* are all NULL or "3", "4", "5"
PutfArgSets ==
    {<<a1, a2, IF rest THEN Arg(<<"3">>) ELSE NullText,
       IF rest THEN Arg(<<"4">>) ELSE NullText,
       IF rest THEN Arg(<<"5">>) ELSE NullText>> :
        a1 \in {NullText, Arg(<<"X">>), Arg(<<"X", "X">>)},
        a2 \in {NullText, Arg(<<"2">>)},
        rest \in BOOLEAN}

InitPF ==
    /\ slots = [i \in 1..MAX_SLOTS |-> FreeSlot]
    /\ slotid = 0
    /\ streams = [a \in Addr |-> ClosedStream]
    /\ fs = [p \in FsPaths |-> NoFile]
    /\ ret = NoCall
    /\ rt \in {[pc |-> "pf_start", text |-> f, max |-> m, h |-> 0, first |-> NoCall,
                second |-> NoCall, args |-> a] :
                  f \in PutfFormats, m \in {1, LineSize, MAX_LINESIZE}, a \in PutfArgSets}

PFOpen == RTOpen("pf_start", "w", "pf_opened")

PFPutf ==
    /\ rt.pc = "pf_opened"
    /\ utl_file_putf(Arg(rt.h), Arg(rt.text), rt.args, "0")
    /\ rt' = [rt EXCEPT !.pc = "pf_done"]

NextPF == PFOpen \/ PFPutf

SpecPF == InitPF /\ [][NextPF]_vars

(* ============================== claims ================================ *)

(* C1: no two occupied slots of the handle table hold the same id, in any  *)
(* state reached by open, close and close_all, the id counter wrapping     *)
(* included.                                                               *)
UniqueIds ==
    \A i, j \in Occupied : i # j => slots[i].id # slots[j].id

CloseUnknownFails ==
    [][(ret'.op = "fclose" /\ ret'.d.v \notin IdsIn(slots)) =>
          /\ ret'.err = INVALID_FILEHANDLE
          /\ UNCHANGED <<slots, slotid, streams, fs>>]_vars

(* C4: after close_all, every occupied slot whose stream closes without    *)
(* error is free, whichever other streams fail to close.                   *)
CloseAllReclaims ==
    [][\A bad \in SUBSET Addr, errno \in {"EBADF", "EIO"} :
          utl_file_fclose_all(bad, errno) =>
              \A i \in Occupied :
                  slots[i].file \notin bad => slots'[i].id = INVALID_SLOTID]_vars

(* C5: after any calls, failed ones included, every occupied slot refers   *)
(* to a stream that has not been closed, no two slots refer to the same    *)
(* stream, and every free slot has id 0 and no stream.                     *)
TableIntact ==
    /\ \A i \in Occupied : slots[i].file # NULL /\ streams[slots[i].file].open
    /\ \A i, j \in Occupied : i # j => slots[i].file # slots[j].file
    /\ \A i \in (1..MAX_SLOTS) \ Occupied : slots[i].file = NULL

(* C6: whenever an open draws an id from the counter, also where the       *)
(* counter wraps around, the counter steps over 0: the open succeeds, the  *)
(* id it returns is not 0, and it is the id of the free slot it filled.    *)
OpenNeverReturnsZero ==
    [][(ret'.op = "fopen" /\ (ret'.err = OK \/ slotid' # slotid)) =>
          /\ ret'.err = OK
          /\ ret'.rint # INVALID_SLOTID
          /\ slotid' = ret'.rint
          /\ \E i \in 1..MAX_SLOTS :
                /\ slots[i].id = INVALID_SLOTID
                /\ slots'[i].id = ret'.rint
                /\ slots'[i].file # NULL]_vars

\* an open has just stepped over 0: it returned 1 while the handle issued
\* last before the wrap, -1, is still open
OpenWrapped ==
    /\ ret.op = "fopen"
    /\ ret.err = OK
    /\ ret.rint = 1
    /\ -1 \in IdsIn(slots)

Rejected ==
    /\ ret'.err = INVALID_FILEHANDLE
    /\ UNCHANGED <<slots, slotid, streams, fs>>

(* C8: get_line, get_nextline, put, put_line, new_line, putf and fflush,   *)
(* called with a handle that is 0 or is not the id of an occupied slot,    *)
(* fail with INVALID_FILEHANDLE, read and write no stream and leave the    *)
(* handle table unchanged.                                                 *)
InvalidHandleRejected ==
    [][(/\ ret'.op \in {"get_line", "get_nextline", "put", "put_line", "new_line",
                        "putf", "fflush"}
        /\ ~ret'.d.isnull
        /\ ret'.d.v \notin IdsIn(slots)) => Rejected]_vars

\* a read or write has just been turned away at the handle, a value no
\* slot holds, while another handle is open
InvalidHandleSeen ==
    /\ ret.op \in {"put", "put_line", "new_line", "putf", "fflush", "get_line",
                   "get_nextline"}
    /\ ret.err = INVALID_FILEHANDLE
    /\ ~ret.d.isnull
    /\ ret.d.v \notin IdsIn(slots)
    /\ Occupied # {}

\* the bytes of the file behind the stream at f once the stream's buffer
\* is written out
Written(sv, fsv, f) == FlushData(sv[f], fsv)[sv[f].path].data

(* C9: for every text without line terminators of length 0..max_line_size, *)
(* after write_line of the text to an empty file and a reopen for reading  *)
(* with the same limit, the first read returns the text with is_eof false  *)
(* and the second read reports is_eof true.                                *)
RoundTrip ==
    rt.pc = "done" =>
        /\ rt.first.err = OK
        /\ ~IsEof(rt.first)
        /\ rt.first.rtext = rt.text
        /\ IsEof(rt.second)

(* C10: on a valid handle, put and put_line never raise VALUE_ERROR for a  *)
(* buffer of at most max_linesize bytes, and when they return all of its   *)
(* bytes (and put_line's terminator) are in the stream; for a longer       *)
(* buffer they raise VALUE_ERROR and write nothing.                        *)
PutLengthLimit ==
    [][(ret'.op \in {"put", "put_line"} /\ ~ret'.d.isnull
            /\ get_stream(slots, ret'.d.v).err = OK) =>
          \A buffer \in {b \in Buffers : ~b.isnull} :
              LET d == ret'.d
                  g == get_stream(slots, d.v)
                  before == Written(streams, fs, g.file)
                  after == Written(streams', fs', g.file)
                  terminator == IF ret'.op = "put" THEN <<>> ELSE <<LF>>
              IN  (\/ \E werr \in WriteErrnos :
                         ret'.op = "put" /\ utl_file_put(d, buffer, werr)
                   \/ \E autoflush \in BOOLEAN, werr \in WriteErrnos :
                         ret'.op = "put_line" /\ utl_file_put_line(d, buffer, autoflush, werr))
                  => IF Len(buffer.v) > g.max_linesize
                     THEN ret'.err = VALUE_ERROR /\ UNCHANGED <<streams, fs>>
                     ELSE /\ ret'.err # VALUE_ERROR
                          /\ ret'.err = OK => after = before \o buffer.v \o terminator]_vars

\* put or put_line has just raised VALUE_ERROR on an open handle
PutTooLong ==
    /\ ret.op \in {"put", "put_line"}
    /\ ret.err = VALUE_ERROR
    /\ ~ret.d.isnull
    /\ ret.d.v \in IdsIn(slots)

\* a length no line size reaches
NoLimit == MAX_LINESIZE + 1

\* what a format stands for from its i-th character on, read left to right:
\* backslash-n is a newline, %% is %, the %s after k earlier ones is
\* argument k + 1 when there is one, every other character is itself; the
\* expansion stops before the first piece that would take it beyond max
RECURSIVE ExpandLim(_, _, _, _, _, _)
ExpandLim(format, i, args, k, len, max) ==
    IF i > Len(format) THEN <<>>
    ELSE LET two == i < Len(format)
             isarg == two /\ format[i] = "%" /\ format[i + 1] = "s"
             piece == IF two /\ format[i] = BACKSLASH /\ format[i + 1] = "n" THEN <<LF>>
                      ELSE IF two /\ format[i] = "%" /\ format[i + 1] = "%" THEN <<"%">>
                      ELSE IF isarg
                      THEN IF k + 1 <= 5 /\ ~args[k + 1].isnull THEN args[k + 1].v ELSE <<>>
                      ELSE <<format[i]>>
             width == IF two /\ format[i] = BACKSLASH /\ format[i + 1] = "n" THEN 2
                      ELSE IF two /\ format[i] = "%" /\ format[i + 1] \in {"%", "s"} THEN 2
                      ELSE 1
         IN  IF len + Len(piece) > max THEN <<>>
             ELSE piece \o ExpandLim(format, i + width, args, IF isarg THEN k + 1 ELSE k,
                                     len + Len(piece), max)

Expand(format, args) == ExpandLim(format, 1, args, 0, 0, NoLimit)

\* reading left to right, some % of the format is followed by a character
\* other than % and s
RECURSIVE StrayPercent(_, _)
StrayPercent(format, i) ==
    IF i >= Len(format) THEN FALSE
    ELSE IF format[i] = "%"
    THEN IF format[i + 1] \in {"%", "s"} THEN StrayPercent(format, i + 2) ELSE TRUE
    ELSE IF format[i] = BACKSLASH /\ format[i + 1] = "n" THEN StrayPercent(format, i + 2)
    ELSE StrayPercent(format, i + 1)

\* what the putf of the script has written
PutfOutput == Written(streams, fs, get_stream(slots, rt.h).file)

(* C11: putf copies to the output, in order, every character of the format *)
(* that is not part of a backslash-n, %% or %s token; a % followed by      *)
(* another character loses neither character.                              *)
PutfCopiesLiterals ==
    (rt.pc = "pf_done" /\ rt.max = MAX_LINESIZE) =>
        /\ ret.err = OK
        /\ PutfOutput = Expand(rt.text, rt.args)

(* C12: in a format whose % are all followed by % or s, the k-th %s emits  *)
(* argument k when k <= 5 and the argument is not NULL and nothing         *)
(* otherwise, %% emits one %, backslash-n one newline; "a%sb\nc" with "X"  *)
(* writes a, X, b, newline, c.                                             *)
PutfSubstitutes ==
    (rt.pc = "pf_done" /\ rt.max = MAX_LINESIZE /\ ~StrayPercent(rt.text, 1)) =>
        /\ ret.err = OK
        /\ PutfOutput = Expand(rt.text, rt.args)
        /\ (rt.text = <<"a", "%", "s", "b", BACKSLASH, "n", "c">> /\ rt.args[1] = Arg(<<"X">>))
              => PutfOutput = <<"a", "X", "b", LF, "c">>
        /\ rt.text = <<"%", "%">> => PutfOutput = <<"%">>
        /\ rt.text = RepeatSeq(<<"%", "s">>, 6) \o <<"a">> =>
              Len(PutfOutput) = Cardinality({k \in 1..5 : ~rt.args[k].isnull})
                                   + (IF rt.args[1] = Arg(<<"X", "X">>) THEN 1 ELSE 0) + 1

\* putf has written a, X, b, newline, c for the format a%sb\nc
PutfExample ==
    /\ rt.pc = "pf_done"
    /\ rt.text = <<"a", "%", "s", "b", BACKSLASH, "n", "c">>
    /\ PutfOutput = <<"a", "X", "b", LF, "c">>

(* C13: a putf call never writes more than max_linesize bytes; for a       *)
(* format whose % are all followed by % or s it raises VALUE_ERROR exactly *)
(* when the whole expansion is longer than max_linesize, and what it has   *)
(* written is the expansion up to the piece that would go beyond the limit.*)
PutfLengthLimit ==
    rt.pc = "pf_done" =>
        /\ Len(PutfOutput) <= rt.max
        /\ ~StrayPercent(rt.text, 1) =>
              /\ ret.err \in {OK, VALUE_ERROR}
              /\ ret.err = VALUE_ERROR <=> Len(Expand(rt.text, rt.args)) > rt.max
              /\ PutfOutput = ExpandLim(rt.text, 1, rt.args, 0, 0, rt.max)

\* putf has raised VALUE_ERROR midway: bytes before the overflow are written
PutfOverflow ==
    /\ rt.pc = "pf_done"
    /\ ret.err = VALUE_ERROR
    /\ ~StrayPercent(rt.text, 1)
    /\ PutfOutput # <<>>
    /\ Len(PutfOutput) < Len(Expand(rt.text, rt.args))

\* a text without its line terminator characters
RECURSIVE StripTerminators(_)
StripTerminators(s) ==
    IF s = <<>> THEN <<>>
    ELSE (IF s[1] \in {LF, CR} THEN <<>> ELSE <<s[1]>>) \o StripTerminators(Tail(s))

\* the stream of the reading script, its file and its offset
RDStream == streams[get_stream(slots, rt.h).file]
RDData == DataOf(RDStream, fs)

(* C15: a read that returns a line consumes the line and then exactly one  *)
(* terminator, \r\n, a lone \n or a lone \r (the character after a lone \r *)
(* stays in the stream), or no terminator where the limit or the end of    *)
(* the stream ends the line; the line holds no \r or \n and at most the    *)
(* limit's number of characters; the lines returned so far are the part of *)
(* the stream read so far without its terminators.                         *)
ReadLineTerminators ==
    [][(/\ rt.pc = "rd_open"
        /\ rt'.fault = NoReadFail
        /\ ret'.err = OK
        /\ ~IsEof(ret')) =>
          LET data == RDData
              pos == RDStream.pos
              after == RDStream'.pos
              line == ret'.rtext
              term == SubSeq(data, pos + Len(line) + 1, after)
          IN  /\ after <= Len(data)
              /\ after >= pos + Len(line)
              /\ SubSeq(data, pos + 1, pos + Len(line)) = line
              /\ \A i \in 1..Len(line) : line[i] \notin {LF, CR}
              /\ Len(line) <= rt'.lim
              /\ term \in {<<>>, <<LF>>, <<CR>>, <<CR, LF>>}
              /\ term = <<>> => Len(line) = rt'.lim \/ after = Len(data)
              /\ term = <<CR>> => after = Len(data) \/ data[after + 1] # LF
              /\ (Len(line) < rt'.lim /\ after < Len(data)) => term # <<>>
              /\ after > pos
              /\ rt'.clean => rt'.got = StripTerminators(SubSeq(data, 1, after))]_vars

\* a read has ended a line at a lone \r and left the character after it,
\* which is not a terminator, in the stream
ReadLoneCR ==
    /\ rt.pc = "rd_open"
    /\ rt.clean
    /\ ret.err = OK
    /\ ret.rtext # <<>>
    /\ RDStream.pos > 0
    /\ RDStream.pos < Len(RDData)
    /\ RDData[RDStream.pos] = CR
    /\ RDData[RDStream.pos + 1] \notin {LF, CR}

(* C16: a read without a failure of the underlying read reports the end of *)
(* the stream (get_line: NO_DATA_FOUND, get_nextline: NULL) exactly when   *)
(* the stream is at its end before the read, and otherwise returns a line  *)
(* or fails on malformed text; get_line without a length and get_nextline  *)
(* return the same line and leave the stream at the same offset.           *)
EofExactlyAtEnd ==
    [][(/\ rt.pc = "rd_open"
        /\ rt'.fault = NoReadFail
        /\ ret'.op \in {"get_line", "get_nextline"}) =>
          LET atEnd == RDStream.pos >= Len(RDData)
              other == get_line(RDStream, RDData, rt.max, NoReadFail)
          IN  /\ IsEof(ret') <=> atEnd
              /\ atEnd => UNCHANGED streams
              /\ ~atEnd => /\ ret'.err \in {OK, CHARACTER_NOT_IN_REPERTOIRE}
                           /\ ret'.rint = 0
                           /\ RDStream'.pos > RDStream.pos
              /\ rt'.lim = rt.max =>
                    /\ RDStream'.pos = other.pos
                    /\ ret'.err = OK => (ret'.rtext = other.line /\ IsEof(ret') = other.iseof)]_vars

\* a read has returned an empty line, not the end of the stream, for a
\* terminator that was all that was left of the stream
ReadEmptyLastLine ==
    /\ rt.pc = "rd_open"
    /\ rt.clean
    /\ ret.op \in {"get_line", "get_nextline"}
    /\ ret.err = OK
    /\ ~IsEof(ret)
    /\ ret.rtext = <<>>
    /\ RDStream.pos = Len(RDData)

\* the failure injected into the read occurs: the read that fails is made
ReadFaultHit ==
    LET data == RDData
        pos == RDStream.pos
    IN  \/ rt'.fault.at = 0
        \/ /\ rt'.fault.at = 1
           /\ pos < Len(data)
           /\ data[pos + 1] # LF
           /\ data[pos + 1] = CR \/ rt'.lim >= 2

(* C19: a read in which the underlying read fails raises INVALID_OPERATION *)
(* or READ_ERROR, whether the failure comes before the first character or  *)
(* after some characters; it never returns a line or the end of stream.    *)
ReadErrorsSurface ==
    [][(/\ rt.pc = "rd_open"
        /\ ret'.op \in {"get_line", "get_nextline"}
        /\ rt'.fault # NoReadFail
        /\ ReadFaultHit) =>
          /\ ret'.err \in {INVALID_OPERATION, READ_ERROR}
          /\ ret'.err = INVALID_OPERATION <=> rt'.fault.errno = "EBADF"]_vars

(* C14: a call with a NULL required argument fails with                    *)
(* NULL_VALUE_NOT_ALLOWED before any other validation: so does a call with *)
(* a NULL handle, and so does put with a NULL text whatever the handle.    *)
NullArgumentFirst ==
    [][/\ (/\ ret'.op \in {"get_line", "get_nextline", "put", "put_line", "new_line",
                           "putf", "fflush"}
           /\ ret'.d.isnull) => ret'.err = NULL_VALUE_NOT_ALLOWED
       /\ \A d \in Handles, werr \in WriteErrnos :
             (ret'.op = "put" /\ utl_file_put(d, NullText, werr))
                 => ret'.err = NULL_VALUE_NOT_ALLOWED]_vars

\* the file a directory and a file name stand for: directory, separator and
\* file name with ".", ".." and repeated separators resolved
CanonicalPath(p) == os_path(p.location.v \o <<"/">> \o p.filename.v)

\* a path argument with both parts given and not empty
WellFormed(p) ==
    /\ ~p.location.isnull /\ ~p.filename.isnull
    /\ p.location.v # <<>> /\ p.filename.v # <<>>

\* the canonical path starts with a directory of utl_file_dir and a separator
UnderAllowed(p) ==
    \E dir \in utl_file_dir :
        /\ Len(CanonicalPath(p)) > Len(dir)
        /\ SubSeq(CanonicalPath(p), 1, Len(dir) + 1) = dir \o <<"/">>

FileExists(fsv, path) == path \in DOMAIN fsv /\ fsv[path].exists

\* the rename of the last call, as C17 speaks of it: both names plain names
\* in the allowed directory, no error of the system
PlainRename ==
    /\ ret'.op = "frename"
    /\ rt'.call.src \in InDir
    /\ rt'.call.dst \in InDir
    /\ rt'.call.oserr = "0"

(* C17 as stated: rename without overwrite onto an existing destination    *)
(* fails with WRITE_ERROR and changes no file; with overwrite, or onto a    *)
(* name that does not exist, rename of an existing source succeeds, the     *)
(* source name is gone and the destination holds the source's contents.     *)
RenameAsStated ==
    [][PlainRename =>
          LET src == CanonicalPath(rt'.call.src)
              dst == CanonicalPath(rt'.call.dst)
              overwrite == ~rt'.call.overwrite.isnull /\ rt'.call.overwrite.v
          IN  /\ (~overwrite /\ FileExists(fs, dst)) =>
                    (ret'.err = WRITE_ERROR /\ UNCHANGED fs)
              /\ ((overwrite \/ ~FileExists(fs, dst)) /\ FileExists(fs, src)) =>
                    /\ ret'.err = OK
                    /\ ~FileExists(fs', src)
                    /\ fs'[dst] = fs[src]]_vars

(* C17, amended: as above where source and destination are different       *)
(* files; a rename of a file onto itself with overwrite succeeds and        *)
(* leaves the file as it is.                                                *)
RenameOverwrite ==
    [][PlainRename =>
          LET src == CanonicalPath(rt'.call.src)
              dst == CanonicalPath(rt'.call.dst)
              overwrite == ~rt'.call.overwrite.isnull /\ rt'.call.overwrite.v
          IN  /\ (~overwrite /\ FileExists(fs, dst)) =>
                    (ret'.err = WRITE_ERROR /\ UNCHANGED fs)
              /\ ((overwrite \/ ~FileExists(fs, dst)) /\ FileExists(fs, src)) =>
                    /\ ret'.err = OK
                    /\ fs'[dst] = fs[src]
                    /\ \A p \in FsPaths \ {src, dst} : fs'[p] = fs[p]
                    /\ IF src = dst THEN UNCHANGED fs ELSE ~FileExists(fs', src)]_vars

\* /d/f has just been renamed to /d/g with overwrite: /d/f is gone and /d/g
\* holds the contents /d/f had before the session
RenameReplaced ==
    /\ ret.op = "frename"
    /\ ret.err = OK
    /\ rt.call.src = PathArg(Arg(<<"/", "d">>), Arg(<<"f">>))
    /\ rt.call.dst = PathArg(Arg(<<"/", "d">>), Arg(<<"g">>))
    /\ rt.call.overwrite = Arg(TRUE)
    /\ ~fs[F1].exists
    /\ fs[F2] = [exists |-> TRUE, data |-> <<"a">>]

\* the path arguments of the last call
CallPaths ==
    IF ret'.op = "frename" THEN {rt'.call.src, rt'.call.dst} ELSE {rt'.call.src}

InnerDotDot(path) ==
    \E i \in 1..(Len(path) - 2) : SubSeq(path, i, i + 2) = <<".", ".", "/">>

\* the error the checks of fopen's arguments are to raise, OK if none
OpenRejection(c) ==
    IF c.src.location.isnull \/ c.src.filename.isnull \/ c.mode.isnull \/ c.max.isnull
    THEN NULL_VALUE_NOT_ALLOWED
    ELSE IF c.mode.v = <<>> THEN INVALID_PARAMETER_VALUE
    ELSE IF c.max.v < 1 \/ c.max.v > 32767 THEN INVALID_MAXLINESIZE
    ELSE IF c.mode.v \notin {<<m>> : m \in {"r", "R", "w", "W", "a", "A"}} THEN INVALID_MODE
    ELSE IF c.src.location.v = <<>> \/ c.src.filename.v = <<>> THEN INVALID_PARAMETER_VALUE
    ELSE IF /\ ~UnderAllowed(c.src)
            /\ CanonicalPath(c.src) # regress_orafce
            /\ ~InnerDotDot(c.src.location.v \o <<"/">> \o c.src.filename.v)
    THEN INVALID_PATH
    ELSE OK

(* C20: an fopen with a NULL argument, an empty mode, a max_linesize        *)
(* outside 1..32767, a mode that is not one letter of R, W, A, an empty     *)
(* directory or file name or a path that is not under a directory of        *)
(* utl_file_dir raises the error of that check, and an fopen that raises    *)
(* one of these errors creates and truncates no                             *)
(* file and leaves slots, slotid and the streams as they are.               *)
OpenValidatesFirst ==
    [][ret'.op = "fopen" =>
          /\ OpenRejection(rt'.call) # OK => ret'.err = OpenRejection(rt'.call)
          /\ ret'.err \notin {OK, PROGRAM_LIMIT_EXCEEDED} =>
                UNCHANGED <<fs, streams, slots, slotid>>]_vars

\* an fopen for writing of /d/f, which exists and is not empty, has just
\* been turned away for its max_linesize: the file has its contents
OpenRejectedKeepsFile ==
    /\ ret.op = "fopen"
    /\ ret.err = INVALID_MAXLINESIZE
    /\ rt.call.mode = Arg(<<"w">>)
    /\ rt.call.src = PathArg(Arg(<<"/", "d">>), Arg(<<"f">>))
    /\ fs[F1].exists
    /\ fs[F1].data # <<>>

\* the value after c in the order of the counter: the next value of the id
\* type, INVALID_SLOTID left out
NextId(c) ==
    IF c = INT_MAX THEN INT_MIN
    ELSE IF c + 1 = INVALID_SLOTID THEN c + 2
    ELSE c + 1

\* an fopen that succeeds returns the value after slotid, greater than
\* slotid except at the wrap of the id type, and leaves it in slotid; an
\* fopen that fails leaves slotid as it is
IssuedInOrder ==
    ret'.op = "fopen" =>
        IF ret'.err = OK
        THEN /\ ret'.rint = NextId(slotid)
             /\ slotid' = ret'.rint
             /\ slotid # INT_MAX => ret'.rint > slotid
        ELSE slotid' = slotid

\* the call of this step finds the handle rt.h stale: fopen does not return
\* it, is_open answers false for it, fclose and fflush of it raise
\* INVALID_FILEHANDLE, and no slot holds it
StaleAfterStep ==
    /\ (ret'.op = "fopen" /\ ret'.err = OK) => ret'.rint # rt.h
    /\ (ret'.op = "is_open" /\ ret'.d = Arg(rt.h)) => ret'.rint = 0
    /\ (ret'.op \in {"fclose", "fflush"} /\ ret'.d = Arg(rt.h)) =>
          ret'.err = INVALID_FILEHANDLE
    /\ rt.h \notin IdsIn(slots')
    /\ ~is_open(slots', Arg(rt.h))

(* C21: handles are issued in the order of the counter, one per            *)
(* successful fopen and none by a failed one, and once fclose(h) has        *)
(* succeeded h is not returned again and every call with h finds it invalid *)
(* (is_open(h) false, fclose and fflush raise INVALID_FILEHANDLE), as long  *)
(* as fewer than NumIds (2^32 - 1) successful fopens have followed the      *)
(* fopen that returned h, and so the fclose.                                *)
StaleHandleStaysInvalid ==
    [][/\ IssuedInOrder
       /\ (rt.closed /\ rt'.since < NumIds) => StaleAfterStep]_vars

====
